---- MODULE Spec2Model ----
(***************************************************************************)
(* The kvstore and configstore packages of compute-sdk-go: two thin        *)
(* wrappers that call the host ABI (package fastly) and translate the      *)
(* host's status codes into Go error values, plus the Entry reader adapter *)
(* with its buffering String method.                                       *)
(*                                                                         *)
(* A Go error is a record [id, msg, wraps, status]: id is the identity of  *)
(* the error value (what == compares), msg its Error() text, wraps the id  *)
(* of the error it wraps with %w, status the host status it carries.       *)
(* A byte string is a sequence of bytes; Go's string(b) copies the bytes.  *)
(***************************************************************************)
EXTENDS Integers, Sequences, FiniteSets, TLC

VARIABLES kvHost, store, cstore, entry, known, hist, last

vars == <<kvHost, store, cstore, entry, known, hist, last>>

\* Longest value held by a store or carried by a stream.
MaxLen == 2

\* The value of n bytes: ..., 97, 98, 97.  Its bytes alternate, so that a
\* part of a value differs from every other part of the same length that
\* starts one byte later.
Value(n) == [i \in 1..n |-> IF (n - i) % 2 = 0 THEN 97 ELSE 98]

Values == {Value(n) : n \in 0..MaxLen}

ValidKeys == {"animal", "hello"}

\* The empty key is the key the host rejects as invalid.
Keys == ValidKeys \cup {""}

KVStoreName == "example-test-kv-store"

KVNames == {KVStoreName, "no-such-store"}

ConfigStoreName == "example-config"

ConfigNames == {ConfigStoreName, "", "name-that-is-too-long", "bad name", "no-such-store"}

ConfigData == [k \in {"hello"} |-> <<97>>]

\* A nil pointer (a nil *Store, a nil *Entry).
Nil == [nil |-> TRUE]

(***************************************************************************)
(* Error values.                                                           *)
(***************************************************************************)
NoError == [id |-> "nil", msg |-> "", wraps |-> "", status |-> ""]

Sentinel(id, msg) == [id |-> id, msg |-> msg, wraps |-> "", status |-> ""]

kvstore_ErrStoreNotFound == Sentinel("kvstore.ErrStoreNotFound", "kvstore: store not found")

kvstore_ErrKeyNotFound == Sentinel("kvstore.ErrKeyNotFound", "kvstore: key not found")

kvstore_ErrInvalidKey == Sentinel("kvstore.ErrInvalidKey", "kvstore: invalid key")

kvstore_ErrUnexpected == Sentinel("kvstore.ErrUnexpected", "kvstore: unexpected error")

configstore_ErrStoreNotFound == Sentinel("configstore.ErrStoreNotFound", "config store not found")

configstore_ErrStoreNameEmpty == Sentinel("configstore.ErrStoreNameEmpty", "config store name was empty")

configstore_ErrStoreNameInvalid ==
    Sentinel("configstore.ErrStoreNameInvalid", "config store name contained invalid characters")

configstore_ErrStoreNameTooLong == Sentinel("configstore.ErrStoreNameTooLong", "config store name too long")

configstore_ErrKeyNotFound == Sentinel("configstore.ErrKeyNotFound", "key not found")

KVErrors ==
    {kvstore_ErrStoreNotFound, kvstore_ErrKeyNotFound, kvstore_ErrInvalidKey, kvstore_ErrUnexpected}

\* The end-of-stream error of package io.
EOF == Sentinel("io.EOF", "EOF")

\* A failure of a read on a value stream.
ErrRead == Sentinel("stream.read", "read failed")

\* An error that is no host status: a failure below the status codes.
TransportError == Sentinel("transport", "link failure")

(***************************************************************************)
(* The host ABI, package fastly.                                           *)
(***************************************************************************)
FastlyStatusNone == "NONE"

FastlyStatusInval == "INVAL"

FastlyStatusBadf == "BADF"

FastlyStatusUnsupported == "UNSUPPORTED"

\* Statuses no operation maps.
OtherStatuses == {"ERROR", "LIMITEXCEEDED"}

Statuses ==
    {FastlyStatusNone, FastlyStatusInval, FastlyStatusBadf, FastlyStatusUnsupported}
        \cup OtherStatuses

\* The error the ABI returns for a host status.
FastlyError(status) ==
    [id |-> "fastly.FastlyError", msg |-> status, wraps |-> "", status |-> status]

\* fastly.IsFastlyError: the status of err, and whether err is a host status.
IsFastlyError(err) == [status |-> err.status, ok |-> err.id = "fastly.FastlyError"]

\* Every failure a host call can be made to return.
Faults == {FastlyError(s) : s \in Statuses} \cup {TransportError}

(***************************************************************************)
(* A value stream: buf the bytes not yet delivered, errIn the number of    *)
(* bytes after which a read fails (-1: never), sticky whether the failure  *)
(* repeats on every later read.                                            *)
(***************************************************************************)
NewReader(v) == [buf |-> v, errIn |-> -1, sticky |-> FALSE]

FaultyReader(v, errIn, sticky) == [buf |-> v, errIn |-> errIn, sticky |-> sticky]

Min2(a, b) == IF a <= b THEN a ELSE b

\* io.Reader.Read with a buffer of n bytes: the bytes p, the error, the reader after.
Read(r, n) ==
    IF r.errIn = 0
    THEN [p |-> <<>>, err |-> ErrRead,
          r |-> IF r.sticky THEN r ELSE [r EXCEPT !.errIn = -1]]
    ELSE IF r.buf = <<>>
    THEN [p |-> <<>>, err |-> EOF, r |-> r]
    ELSE LET avail == IF r.errIn > 0 THEN Min2(Len(r.buf), r.errIn) ELSE Len(r.buf)
             k == Min2(n, avail)
         IN  [p |-> SubSeq(r.buf, 1, k), err |-> NoError,
              r |-> [r EXCEPT !.buf = SubSeq(r.buf, k + 1, Len(r.buf)),
                              !.errIn = IF r.errIn > 0 THEN r.errIn - k ELSE r.errIn]]

RECURSIVE ReadAll(_)
\* io.ReadAll: reads until an error; EOF is not reported as an error.
ReadAll(r) ==
    LET x == Read(r, 512)
    IN  IF x.err = NoError
        THEN LET rest == ReadAll(x.r)
             IN  [b |-> x.p \o rest.b, err |-> rest.err, r |-> rest.r]
        ELSE IF x.err = EOF
        THEN [b |-> x.p, err |-> NoError, r |-> x.r]
        ELSE [b |-> x.p, err |-> x.err, r |-> x.r]

(***************************************************************************)
(* The host's side of each call.  h is the host as the call finds it:     *)
(* h.kv the contents of the KV store, h.fault a failure the host reports   *)
(* whatever the arguments (NoError: none), h.errIn and h.sticky the        *)
(* failure of the value stream a lookup hands out.                         *)
(***************************************************************************)
Host(kv, fault, errIn, sticky) == [kv |-> kv, fault |-> fault, errIn |-> errIn, sticky |-> sticky]

fastly_OpenKVStore(h, name) ==
    IF h.fault /= NoError THEN [o |-> Nil, err |-> h.fault]
    ELSE IF name /= KVStoreName THEN [o |-> Nil, err |-> FastlyError(FastlyStatusInval)]
    ELSE [o |-> [name |-> name], err |-> NoError]

KVStore_Lookup(h, key) ==
    IF h.fault /= NoError THEN [val |-> Nil, err |-> h.fault]
    ELSE IF key \notin ValidKeys THEN [val |-> Nil, err |-> FastlyError(FastlyStatusInval)]
    ELSE IF key \notin DOMAIN h.kv THEN [val |-> Nil, err |-> FastlyError(FastlyStatusNone)]
    ELSE [val |-> FaultyReader(h.kv[key], Min2(h.errIn, Len(h.kv[key])), h.sticky),
          err |-> NoError]

\* The host drains the value stream and stores its bytes under key.
KVStore_Insert(h, key, value) ==
    IF h.fault /= NoError THEN [kv |-> h.kv, err |-> h.fault]
    ELSE IF key \notin ValidKeys THEN [kv |-> h.kv, err |-> FastlyError(FastlyStatusInval)]
    ELSE [kv |-> [k \in DOMAIN h.kv \cup {key} |->
                     IF k = key THEN ReadAll(value).b ELSE h.kv[k]],
          err |-> NoError]

KVStore_Delete(h, key) ==
    IF h.fault /= NoError THEN [kv |-> h.kv, err |-> h.fault]
    ELSE IF key \notin ValidKeys THEN [kv |-> h.kv, err |-> FastlyError(FastlyStatusInval)]
    ELSE IF key \notin DOMAIN h.kv THEN [kv |-> h.kv, err |-> FastlyError(FastlyStatusNone)]
    ELSE [kv |-> [k \in DOMAIN h.kv \ {key} |-> h.kv[k]], err |-> NoError]

fastly_OpenDictionary(h, name) ==
    IF h.fault /= NoError THEN [d |-> Nil, err |-> h.fault]
    ELSE IF name = "" THEN [d |-> Nil, err |-> FastlyError(FastlyStatusNone)]
    ELSE IF name = "name-that-is-too-long"
    THEN [d |-> Nil, err |-> FastlyError(FastlyStatusUnsupported)]
    ELSE IF name = "bad name" THEN [d |-> Nil, err |-> FastlyError(FastlyStatusInval)]
    ELSE IF name /= ConfigStoreName THEN [d |-> Nil, err |-> FastlyError(FastlyStatusBadf)]
    ELSE [d |-> [name |-> name], err |-> NoError]

Dictionary_Get(h, key) ==
    IF h.fault /= NoError THEN [v |-> <<>>, err |-> h.fault]
    ELSE IF key \notin DOMAIN ConfigData THEN [v |-> <<>>, err |-> FastlyError(FastlyStatusNone)]
    ELSE [v |-> ConfigData[key], err |-> NoError]

(***************************************************************************)
(* Package kvstore.  Each operation returns what the Go function returns   *)
(* (ret, err) and, for the properties, the number of host calls it made    *)
(* and the error the host call returned.                                   *)
(***************************************************************************)
\* fmt.Errorf("%w (%s)", sentinel, status)
Errorf(sentinel, status) ==
    [id |-> "fmt.wrapError", msg |-> sentinel.msg \o " (" \o status \o ")",
     wraps |-> sentinel.id, status |-> ""]

Result(ret, err, hostErr) == [ret |-> ret, err |-> err, calls |-> 1, hostErr |-> hostErr]

\* Open returning the bare ErrUnexpected, without the host's status.
kvstore_Open_NoCode(name, h) ==
    LET r == fastly_OpenKVStore(h, name)
        fe == IsFastlyError(r.err)
    IN  IF r.err /= NoError
        THEN CASE fe.ok /\ fe.status = FastlyStatusInval ->
                      Result(Nil, kvstore_ErrStoreNotFound, r.err)
               [] fe.ok /\ fe.status /= FastlyStatusInval ->
                      Result(Nil, kvstore_ErrUnexpected, r.err)
               [] OTHER -> Result(Nil, r.err, r.err)
        ELSE Result([kvstore |-> r.o], NoError, r.err)

kvstore_Open(name, h) ==
    LET r == fastly_OpenKVStore(h, name)
        fe == IsFastlyError(r.err)
    IN  IF r.err /= NoError
        THEN CASE fe.ok /\ fe.status = FastlyStatusInval ->
                      Result(Nil, kvstore_ErrStoreNotFound, r.err)
               [] fe.ok /\ fe.status /= FastlyStatusInval ->
                      Result(Nil, Errorf(kvstore_ErrUnexpected, fe.status), r.err)
               [] OTHER -> Result(Nil, r.err, r.err)
        ELSE Result([kvstore |-> r.o], NoError, r.err)

\* Store.Lookup without its case for FastlyStatusNone.
Store_Lookup_NoneUnmapped(s, key, h) ==
    LET r == KVStore_Lookup(h, key)
        fe == IsFastlyError(r.err)
    IN  IF r.err /= NoError
        THEN CASE fe.ok /\ fe.status = FastlyStatusInval ->
                      Result(Nil, kvstore_ErrInvalidKey, r.err)
               [] fe.ok /\ fe.status /= FastlyStatusInval ->
                      Result(Nil, Errorf(kvstore_ErrUnexpected, fe.status), r.err)
               [] OTHER -> Result(Nil, r.err, r.err)
        ELSE Result([Reader |-> r.val, validString |-> FALSE, s |-> <<>>], r.err, r.err)

Store_Lookup(s, key, h) ==
    LET r == KVStore_Lookup(h, key)
        fe == IsFastlyError(r.err)
    IN  IF r.err /= NoError
        THEN CASE fe.ok /\ fe.status = FastlyStatusNone ->
                      Result(Nil, kvstore_ErrKeyNotFound, r.err)
               [] fe.ok /\ fe.status = FastlyStatusInval ->
                      Result(Nil, kvstore_ErrInvalidKey, r.err)
               [] fe.ok /\ fe.status \notin {FastlyStatusNone, FastlyStatusInval} ->
                      Result(Nil, Errorf(kvstore_ErrUnexpected, fe.status), r.err)
               [] OTHER -> Result(Nil, r.err, r.err)
        ELSE Result([Reader |-> r.val, validString |-> FALSE, s |-> <<>>], r.err, r.err)

\* Store.Insert with Lookup's case for FastlyStatusNone copied in.
Store_Insert_MapsNone(s, key, value, h) ==
    LET r == KVStore_Insert(h, key, value)
        fe == IsFastlyError(r.err)
    IN  IF r.err /= NoError
        THEN CASE fe.ok /\ fe.status = FastlyStatusNone ->
                      Result(r.kv, kvstore_ErrKeyNotFound, r.err)
               [] fe.ok /\ fe.status = FastlyStatusInval ->
                      Result(r.kv, kvstore_ErrInvalidKey, r.err)
               [] fe.ok /\ fe.status \notin {FastlyStatusNone, FastlyStatusInval} ->
                      Result(r.kv, Errorf(kvstore_ErrUnexpected, fe.status), r.err)
               [] OTHER -> Result(r.kv, r.err, r.err)
        ELSE Result(r.kv, NoError, r.err)

\* ret is the contents of the host's store after the call.
Store_Insert(s, key, value, h) ==
    LET r == KVStore_Insert(h, key, value)
        fe == IsFastlyError(r.err)
    IN  IF r.err /= NoError
        THEN CASE fe.ok /\ fe.status = FastlyStatusInval ->
                      Result(r.kv, kvstore_ErrInvalidKey, r.err)
               [] fe.ok /\ fe.status /= FastlyStatusInval ->
                      Result(r.kv, Errorf(kvstore_ErrUnexpected, fe.status), r.err)
               [] OTHER -> Result(r.kv, r.err, r.err)
        ELSE Result(r.kv, NoError, r.err)

\* Store.Delete treating a key that is not there as deleted: NONE returns nil.
Store_Delete_SwallowsNone(s, key, h) ==
    LET r == KVStore_Delete(h, key)
        fe == IsFastlyError(r.err)
    IN  IF r.err /= NoError
        THEN CASE fe.ok /\ fe.status = FastlyStatusNone ->
                      Result(r.kv, NoError, r.err)
               [] fe.ok /\ fe.status = FastlyStatusInval ->
                      Result(r.kv, kvstore_ErrInvalidKey, r.err)
               [] fe.ok /\ fe.status \notin {FastlyStatusNone, FastlyStatusInval} ->
                      Result(r.kv, Errorf(kvstore_ErrUnexpected, fe.status), r.err)
               [] OTHER -> Result(r.kv, r.err, r.err)
        ELSE Result(r.kv, NoError, r.err)

\* ret is the contents of the host's store after the call.
Store_Delete(s, key, h) ==
    LET r == KVStore_Delete(h, key)
        fe == IsFastlyError(r.err)
    IN  IF r.err /= NoError
        THEN CASE fe.ok /\ fe.status = FastlyStatusNone ->
                      Result(r.kv, kvstore_ErrKeyNotFound, r.err)
               [] fe.ok /\ fe.status = FastlyStatusInval ->
                      Result(r.kv, kvstore_ErrInvalidKey, r.err)
               [] fe.ok /\ fe.status \notin {FastlyStatusNone, FastlyStatusInval} ->
                      Result(r.kv, Errorf(kvstore_ErrUnexpected, fe.status), r.err)
               [] OTHER -> Result(r.kv, r.err, r.err)
        ELSE Result(r.kv, NoError, r.err)

\* An Entry whose Read works on a copy of the reader: the Entry's own reader
\* does not advance.
Entry_Read_OnCopy(e, n) ==
    LET x == Read(e.Reader, n)
    IN  [p |-> x.p, err |-> x.err, e |-> e]

\* Entry embeds the io.Reader: Read is the reader's Read.
Entry_Read(e, n) ==
    LET x == Read(e.Reader, n)
    IN  [p |-> x.p, err |-> x.err, e |-> [e EXCEPT !.Reader = x.r]]

\* Entry.String without the assignment e.validString = true.
Entry_String_NeverValid(e) ==
    IF e.validString
    THEN [ret |-> e.s, e |-> e, read |-> FALSE, readErr |-> FALSE, n |-> 0]
    ELSE LET x == ReadAll(e.Reader)
         IN  IF x.err /= NoError
             THEN [ret |-> <<>>, e |-> [e EXCEPT !.Reader = x.r],
                   read |-> TRUE, readErr |-> TRUE, n |-> Len(x.b)]
             ELSE [ret |-> x.b,
                   e |-> [Reader |-> x.r, validString |-> FALSE, s |-> x.b],
                   read |-> TRUE, readErr |-> FALSE, n |-> Len(x.b)]

\* Entry.String without the check of io.ReadAll's error: the bytes read before
\* the failure are cached and returned.
Entry_String_KeepsPartial(e) ==
    IF e.validString
    THEN [ret |-> e.s, e |-> e, read |-> FALSE, readErr |-> FALSE, n |-> 0]
    ELSE LET x == ReadAll(e.Reader)
         IN  [ret |-> x.b,
              e |-> [Reader |-> x.r, validString |-> TRUE, s |-> x.b],
              read |-> TRUE, readErr |-> (x.err /= NoError), n |-> Len(x.b)]

\* Entry.String without the assignment e.s = string(b): the drain is thrown away.
Entry_String_DropsBytes(e) ==
    IF e.validString
    THEN [ret |-> e.s, e |-> e, read |-> FALSE, readErr |-> FALSE, n |-> 0]
    ELSE LET x == ReadAll(e.Reader)
         IN  IF x.err /= NoError
             THEN [ret |-> <<>>, e |-> [e EXCEPT !.Reader = x.r],
                   read |-> TRUE, readErr |-> TRUE, n |-> Len(x.b)]
             ELSE [ret |-> e.s,
                   e |-> [Reader |-> x.r, validString |-> TRUE, s |-> e.s],
                   read |-> TRUE, readErr |-> FALSE, n |-> Len(x.b)]

\* ret is the string returned, e the Entry after the call; read tells whether
\* the underlying stream was read, readErr whether a read failed, n how many
\* bytes the drain had read.
Entry_String(e) ==
    IF e.validString
    THEN [ret |-> e.s, e |-> e, read |-> FALSE, readErr |-> FALSE, n |-> 0]
    ELSE LET x == ReadAll(e.Reader)
         IN  IF x.err /= NoError
             THEN [ret |-> <<>>, e |-> [e EXCEPT !.Reader = x.r],
                   read |-> TRUE, readErr |-> TRUE, n |-> Len(x.b)]
             ELSE [ret |-> x.b,
                   e |-> [Reader |-> x.r, validString |-> TRUE, s |-> x.b],
                   read |-> TRUE, readErr |-> FALSE, n |-> Len(x.b)]

(***************************************************************************)
(* Package configstore.                                                    *)
(***************************************************************************)
\* Open returning ErrStoreNameInvalid for FastlyStatusUnsupported as well.
configstore_Open_TooLongAsInvalid(name, h) ==
    LET r == fastly_OpenDictionary(h, name)
        fe == IsFastlyError(r.err)
    IN  IF r.err /= NoError
        THEN CASE fe.ok /\ fe.status = FastlyStatusBadf ->
                      Result(Nil, configstore_ErrStoreNotFound, r.err)
               [] fe.ok /\ fe.status = FastlyStatusNone ->
                      Result(Nil, configstore_ErrStoreNameEmpty, r.err)
               [] fe.ok /\ fe.status \in {FastlyStatusUnsupported, FastlyStatusInval} ->
                      Result(Nil, configstore_ErrStoreNameInvalid, r.err)
               [] OTHER -> Result(Nil, r.err, r.err)
        ELSE Result([abiDict |-> r.d], NoError, r.err)

configstore_Open(name, h) ==
    LET r == fastly_OpenDictionary(h, name)
        fe == IsFastlyError(r.err)
    IN  IF r.err /= NoError
        THEN CASE fe.ok /\ fe.status = FastlyStatusBadf ->
                      Result(Nil, configstore_ErrStoreNotFound, r.err)
               [] fe.ok /\ fe.status = FastlyStatusNone ->
                      Result(Nil, configstore_ErrStoreNameEmpty, r.err)
               [] fe.ok /\ fe.status = FastlyStatusUnsupported ->
                      Result(Nil, configstore_ErrStoreNameTooLong, r.err)
               [] fe.ok /\ fe.status = FastlyStatusInval ->
                      Result(Nil, configstore_ErrStoreNameInvalid, r.err)
               [] OTHER -> Result(Nil, r.err, r.err)
        ELSE Result([abiDict |-> r.d], NoError, r.err)

\* Store.Get without its nil guard, on a build where the method call on the
\* nil *Store reaches the host call.
Store_Get_NoGuard(s, key, h) ==
    LET r == Dictionary_Get(h, key)
        fe == IsFastlyError(r.err)
    IN  IF r.err /= NoError
        THEN CASE fe.ok /\ fe.status = FastlyStatusBadf ->
                      Result(<<>>, configstore_ErrStoreNotFound, r.err)
               [] fe.ok /\ fe.status = FastlyStatusNone ->
                      Result(<<>>, configstore_ErrKeyNotFound, r.err)
               [] OTHER -> Result(<<>>, r.err, r.err)
        ELSE Result(r.v, NoError, r.err)

Store_Get(s, key, h) ==
    IF s = Nil
    THEN [ret |-> <<>>, err |-> configstore_ErrKeyNotFound, calls |-> 0, hostErr |-> NoError]
    ELSE LET r == Dictionary_Get(h, key)
             fe == IsFastlyError(r.err)
         IN  IF r.err /= NoError
             THEN CASE fe.ok /\ fe.status = FastlyStatusBadf ->
                           Result(<<>>, configstore_ErrStoreNotFound, r.err)
                    [] fe.ok /\ fe.status = FastlyStatusNone ->
                           Result(<<>>, configstore_ErrKeyNotFound, r.err)
                    [] OTHER -> Result(<<>>, r.err, r.err)
             ELSE Result(r.v, NoError, r.err)

(***************************************************************************)
(* The program: one KV store handle, one config store handle and the Entry *)
(* of the latest Lookup, used by a single caller.                          *)
(*   kvHost  contents of the host's KV store (key -> bytes)                *)
(*   store   the *kvstore.Store the caller holds, or Nil                   *)
(*   cstore  the *configstore.Store the caller holds, or Nil               *)
(*   entry   the *Entry the caller holds, or Nil                           *)
(*   last    what the latest call returned, and what it did to its key     *)
(*   known   per key, what the calls so far told the caller                *)
(*   hist    what has been done with the Entry since its Lookup: what the  *)
(*           caller knew of the key at the Lookup and what the call before *)
(*           had done to it, the full value of the                         *)
(*           stream, the bytes consumed through Read before                *)
(*           the first String call, the first String call, the first       *)
(*           String call that met no read error, and the latest String     *)
(*           calls made in a row (at most two)                             *)
(***************************************************************************)
Returned(op, key, r) ==
    [op |-> op, key |-> key, err |-> r.err, nilRet |-> FALSE, ret |-> <<>>, did |-> "",
     calls |-> r.calls, hostErr |-> r.hostErr, read |-> FALSE, readErr |-> FALSE]

\* What the calls so far told the caller of a key.
Absent == [st |-> "absent", v |-> <<>>]

Present(v) == [st |-> "present", v |-> v]

\* What the call before a Lookup did to the key looked up: "insert" (a nil
\* Insert of a key that was absent or held the same value), "overwrite" (a
\* nil Insert over another value), "delete" (a nil Delete), "" otherwise.
Did(key) == IF last.key = key THEN last.did ELSE ""

NoHist ==
    [at |-> Absent, did |-> "", full |-> <<>>, consumed |-> 0,
     first |-> [called |-> FALSE, ret |-> <<>>, readErr |-> FALSE],
     ok |-> [set |-> FALSE, ret |-> <<>>],
     run |-> <<>>]

\* The stores a program may find when it starts.
InitialContents == {<<>>} \cup {[k \in {"hello"} |-> v] : v \in Values}

Init ==
    /\ kvHost \in InitialContents
    /\ store = Nil
    /\ cstore = Nil
    /\ entry = Nil
    /\ known = [k \in ValidKeys |-> IF k \in DOMAIN kvHost THEN Present(kvHost[k]) ELSE Absent]
    /\ hist = NoHist
    /\ last = Returned("none", "", [err |-> NoError, calls |-> 0, hostErr |-> NoError])

Open(name, fault) ==
    LET r == kvstore_Open(name, Host(kvHost, fault, -1, FALSE))
    IN  /\ store' = r.ret
        /\ last' = [Returned("Open", name, r) EXCEPT !.nilRet = (r.ret = Nil)]
        /\ UNCHANGED <<kvHost, cstore, entry, known, hist>>

\* Lookup, Insert and Delete are called on an opened store: on a nil *Store
\* they dereference s.kvstore.
Lookup(key, fault, errIn, sticky) ==
    /\ store /= Nil
    /\ LET r == Store_Lookup(store, key, Host(kvHost, fault, errIn, sticky))
       IN  /\ entry' = r.ret
           /\ hist' = IF r.ret = Nil THEN NoHist
                      ELSE [NoHist EXCEPT !.at = known[key], !.did = Did(key),
                                          !.full = r.ret.Reader.buf]
           /\ last' = [Returned("Lookup", key, r) EXCEPT !.nilRet = (r.ret = Nil),
                                                         !.did = Did(key)]
    /\ UNCHANGED <<kvHost, store, cstore, known>>

Insert(key, v, fault) ==
    /\ store /= Nil
    /\ LET r == Store_Insert(store, key, NewReader(v), Host(kvHost, fault, -1, FALSE))
       IN  /\ kvHost' = r.ret
           /\ known' = IF key \notin ValidKeys THEN known
                       ELSE IF r.err = NoError THEN [known EXCEPT ![key] = Present(v)]
                       ELSE known
           /\ last' = [Returned("Insert", key, r) EXCEPT
                          !.did = IF key \notin ValidKeys \/ r.err /= NoError THEN ""
                                  ELSE IF known[key].st = "present" /\ known[key].v /= v
                                  THEN "overwrite"
                                  ELSE "insert"]
    /\ UNCHANGED <<store, cstore, entry, hist>>

Delete(key, fault) ==
    /\ store /= Nil
    /\ LET r == Store_Delete(store, key, Host(kvHost, fault, -1, FALSE))
       IN  /\ kvHost' = r.ret
           /\ known' = IF key \notin ValidKeys THEN known
                       ELSE IF r.err = NoError THEN [known EXCEPT ![key] = Absent]
                       ELSE known
           /\ last' = [Returned("Delete", key, r) EXCEPT
                          !.did = IF key \in ValidKeys /\ r.err = NoError THEN "delete" ELSE ""]
    /\ UNCHANGED <<store, cstore, entry, hist>>

\* The caller reads up to n bytes through the Entry's io.Reader.
EntryRead(n) ==
    /\ entry /= Nil
    /\ LET x == Entry_Read(entry, n)
       IN  /\ entry' = x.e
           /\ hist' = [hist EXCEPT
                          !.consumed = IF hist.first.called THEN @ ELSE @ + Len(x.p),
                          !.run = <<>>]
           /\ last' = [Returned("Read", "", [err |-> x.err, calls |-> 0, hostErr |-> NoError])
                          EXCEPT !.ret = x.p, !.read = TRUE, !.readErr = (x.err = ErrRead)]
    /\ UNCHANGED <<kvHost, store, cstore, known>>

String ==
    /\ entry /= Nil
    /\ LET x == Entry_String(entry)
           call == [ret |-> x.ret, read |-> x.read, readErr |-> x.readErr, n |-> x.n]
       IN  /\ entry' = x.e
           /\ hist' = [hist EXCEPT
                          !.first = IF @.called THEN @
                                    ELSE [called |-> TRUE, ret |-> x.ret, readErr |-> x.readErr],
                          !.ok = IF @.set \/ x.readErr THEN @ ELSE [set |-> TRUE, ret |-> x.ret],
                          !.run = IF @ = <<>> THEN <<call>> ELSE <<@[Len(@)], call>>]
           /\ last' = [Returned("String", "", [err |-> NoError, calls |-> 0, hostErr |-> NoError])
                          EXCEPT !.ret = x.ret, !.read = x.read, !.readErr = x.readErr]
    /\ UNCHANGED <<kvHost, store, cstore, known>>

ConfigOpen(name, fault) ==
    LET r == configstore_Open(name, Host(kvHost, fault, -1, FALSE))
    IN  /\ cstore' = r.ret
        /\ last' = [Returned("ConfigOpen", name, r) EXCEPT !.nilRet = (r.ret = Nil)]
        /\ UNCHANGED <<kvHost, store, entry, known, hist>>

\* Get is also called on a nil *Store.
Get(key, fault) ==
    LET r == Store_Get(cstore, key, Host(kvHost, fault, -1, FALSE))
    IN  /\ last' = [Returned("Get", key, r) EXCEPT !.ret = r.ret, !.nilRet = (cstore = Nil)]
        /\ UNCHANGED <<kvHost, store, cstore, entry, known, hist>>

\* The keys used against a failing host: a valid one and the invalid one.
FaultKeys == {"hello", ""}

\* The KV store against a host that answers every call from its state alone
\* and whose streams never fail.
Next ==
    \/ \E name \in KVNames : Open(name, NoError)
    \/ \E key \in Keys : Lookup(key, NoError, -1, FALSE)
    \/ \E key \in Keys, v \in Values : Insert(key, v, NoError)
    \/ \E key \in Keys : Delete(key, NoError)
    \/ \E n \in 1..MaxLen : EntryRead(n)
    \/ String

Spec == Init /\ [][Next]_vars

\* The Entry of a looked-up value whose stream may fail after any number of
\* bytes, once or for good; the caller reads it, drains it, or both, and may
\* write or delete the key in between.
NextEntry ==
    \/ Open(KVStoreName, NoError)
    \/ \E key \in Keys, errIn \in -1..MaxLen, sticky \in BOOLEAN :
          Lookup(key, NoError, errIn, sticky)
    \/ \E v \in Values : Insert("hello", v, NoError)
    \/ Delete("hello", NoError)
    \/ \E n \in 1..MaxLen : EntryRead(n)
    \/ String

SpecEntry == Init /\ [][NextEntry]_vars

\* Both stores against a host that may fail any call with any status or with
\* a transport error, and whose streams may fail for good at their first
\* read.  Every
\* operation is called with each of its arguments against a host that answers
\* by its contents, and with one argument against a host that fails the call.
NextFault ==
    \/ \E name \in KVNames : Open(name, NoError)
    \/ \E f \in Faults : Open(KVStoreName, f)
    \/ \E key \in FaultKeys, errIn \in -1..0 : Lookup(key, NoError, errIn, TRUE)
    \/ \E f \in Faults : Lookup("hello", f, -1, FALSE)
    \/ \E key \in FaultKeys, v \in Values : Insert(key, v, NoError)
    \/ \E f \in Faults : Insert("hello", Value(MaxLen), f)
    \/ \E key \in FaultKeys : Delete(key, NoError)
    \/ \E f \in Faults : Delete("hello", f)
    \/ String
    \/ \E name \in ConfigNames : ConfigOpen(name, NoError)
    \/ \E f \in Faults : ConfigOpen(ConfigStoreName, f)
    \/ \E key \in FaultKeys : Get(key, NoError)
    \/ \E f \in Faults : Get("hello", f)

SpecFault == Init /\ [][NextFault]_vars

(***************************************************************************)
(* Properties.                                                             *)
(***************************************************************************)
\* errors.Is: err is target or wraps it.
Is(err, target) == err = target \/ err.wraps = target.id

KVOps == {"Open", "Lookup", "Insert", "Delete"}

ConfigOps == {"ConfigOpen", "Get"}

\* The host statuses an operation maps to an error of its own.
Mapped(op) ==
    CASE op = "Open" -> {FastlyStatusInval}
      [] op = "Lookup" -> {FastlyStatusNone, FastlyStatusInval}
      [] op = "Insert" -> {FastlyStatusInval}
      [] op = "Delete" -> {FastlyStatusNone, FastlyStatusInval}
      [] op = "ConfigOpen" ->
            {FastlyStatusBadf, FastlyStatusNone, FastlyStatusUnsupported, FastlyStatusInval}
      [] op = "Get" -> {FastlyStatusBadf, FastlyStatusNone}
      [] OTHER -> {}

\* The latest call's host call failed with a status the operation does not map.
UnmappedStatus ==
    /\ last.op \in KVOps \cup ConfigOps
    /\ IsFastlyError(last.hostErr).ok
    /\ last.hostErr.status \notin Mapped(last.op)

\* The latest call's host call failed with an error that is no host status.
NonHostError ==
    /\ last.op \in KVOps \cup ConfigOps
    /\ last.hostErr /= NoError
    /\ ~IsFastlyError(last.hostErr).ok

\* The latest call returned the unexpected-error kind with the host's code in its text.
UnexpectedWithCode ==
    /\ Is(last.err, kvstore_ErrUnexpected)
    /\ last.err.msg = kvstore_ErrUnexpected.msg \o " (" \o last.hostErr.status \o ")"

\* C1: round trip.  Once Insert(k, v) returned nil and no Insert or Delete of
\* k followed, Lookup(k) returns a nil error and an Entry whose String() is
\* exactly v, also when the Insert replaced another value: the Entry just
\* returned drains to v, and the first String call on an Entry not read
\* before returned v.
C1_RoundTrip ==
    /\ (last.op = "Lookup" /\ last.key \in ValidKeys /\ known[last.key].st = "present")
          => /\ last.err = NoError
             /\ ~last.nilRet
             /\ entry /= Nil
             /\ Entry_String(entry).ret = known[last.key].v
    /\ (hist.first.called /\ hist.consumed = 0)
          => /\ hist.at.st = "present"
             /\ hist.first.ret = hist.at.v

\* C1 witness: String was called on the Entry looked up for a key whose
\* two-byte value an Insert wrote over a different value.
C1_Witness ==
    /\ last.op = "String"
    /\ hist.consumed = 0
    /\ hist.did = "overwrite"
    /\ Len(hist.at.v) = 2
    /\ last.ret = hist.at.v

\* C3: Lookup of a valid key that is absent (never inserted, or deleted by a
\* successful Delete since its last Insert) returns a nil Entry and
\* ErrKeyNotFound, never an error wrapping ErrUnexpected.
C3_AbsentKeyNotFound ==
    (last.op = "Lookup" /\ last.key \in ValidKeys /\ known[last.key].st = "absent")
       => /\ last.nilRet
          /\ entry = Nil
          /\ last.err = kvstore_ErrKeyNotFound
          /\ ~Is(last.err, kvstore_ErrUnexpected)

\* C3 witness: a Lookup of a key that a successful Delete removed.
C3_Witness ==
    /\ last.op = "Lookup"
    /\ last.key \in ValidKeys
    /\ known[last.key] = Absent
    /\ last.did = "delete"
    /\ last.err = kvstore_ErrKeyNotFound

\* The String calls made in a row on the Entry: the one before the latest
\* (when there are two) and the latest.
Earlier == hist.run[1]

Latest == hist.run[Len(hist.run)]

\* C2 as claimed: whatever the underlying reader does, two String calls in a
\* row return the identical string and the second reads nothing from the
\* underlying stream.
C2_Original ==
    Len(hist.run) = 2 => (Latest.ret = Earlier.ret /\ ~Latest.read)

\* C2 amended: when a String call met no read error (it drained the stream to
\* EOF or returned the cached string), the next String call in a row returns
\* the identical string and reads nothing from the underlying stream.
C2_StringIdempotent ==
    (Len(hist.run) = 2 /\ ~Earlier.readErr) => (Latest.ret = Earlier.ret /\ ~Latest.read)

\* C2 witness: a String call that drained a non-empty value, followed by
\* another String call.
C2_Witness ==
    /\ Len(hist.run) = 2
    /\ Earlier.read
    /\ ~Earlier.readErr
    /\ Earlier.ret /= <<>>
    /\ last.op = "String"

\* C9: mixing the two access modes yields partial data.  With n >= 1 bytes
\* consumed through Read before the first String call, that call never
\* returns the full value, and unless its drain fails it returns exactly the
\* remaining L-n bytes; after a String call that met no read error every Read
\* yields zero bytes at end of stream and String keeps returning the same
\* string.
C9_MixedModesPartial ==
    /\ (hist.first.called /\ hist.consumed >= 1)
          => /\ hist.first.ret /= hist.full
             /\ ~hist.first.readErr
                   => hist.first.ret = SubSeq(hist.full, hist.consumed + 1, Len(hist.full))
    /\ (last.op = "Read" /\ hist.ok.set) => (last.ret = <<>> /\ last.err = EOF)
    /\ (last.op = "String" /\ hist.ok.set) => last.ret = hist.ok.ret

\* C9 witness: one byte of a two-byte value was read through Read, then
\* String returned the other byte alone.
C9_Witness ==
    /\ last.op = "String"
    /\ Len(hist.full) = 2
    /\ hist.consumed = 1
    /\ ~hist.first.readErr
    /\ Len(last.ret) = 1

\* C10: a String call whose drain meets a read failure returns the empty
\* string however many bytes were read before the failure, reports no error,
\* and leaves the cache unset (validString false, s empty), so that the next
\* String call reads the underlying stream again.
C10_FailedDrainEmpty ==
    /\ (Len(hist.run) >= 1 /\ Latest.readErr)
          => /\ Latest.ret = <<>>
             /\ ~entry.validString
             /\ entry.s = <<>>
    /\ (last.op = "String" /\ last.readErr) => (last.ret = <<>> /\ last.err = NoError)
    /\ (Len(hist.run) = 2 /\ Earlier.readErr) => Latest.read

\* C10 witness: a drain that failed after reading a byte returned "", and the
\* String call after it read the stream again and returned the rest.
C10_Witness ==
    /\ Len(hist.run) = 2
    /\ Earlier.readErr
    /\ Earlier.n >= 1
    /\ Earlier.ret = <<>>
    /\ Latest.read
    /\ Latest.ret /= <<>>

\* C4 as claimed: in all six store operations a host status the operation
\* does not map comes back as the unexpected-error kind with the code in its
\* text, and an error that is no host status comes back unchanged.
C4_Original ==
    /\ UnmappedStatus => UnexpectedWithCode
    /\ NonHostError => last.err = last.hostErr

\* C4 amended: in kvstore's Open, Lookup, Insert and Delete a host status the
\* operation does not map comes back as an error wrapping ErrUnexpected with
\* the code in its text; in configstore's Open and Get it comes back as the
\* host's own status error, unchanged (configstore has no unexpected-error
\* kind); in all six an error that is no host status comes back unchanged.
C4_UnmappedStatus ==
    /\ (UnmappedStatus /\ last.op \in KVOps)
          => (UnexpectedWithCode /\ last.err /= kvstore_ErrUnexpected)
    /\ (UnmappedStatus /\ last.op \in ConfigOps)
          => (last.err = last.hostErr /\ ~Is(last.err, kvstore_ErrUnexpected))
    /\ NonHostError => last.err = last.hostErr

\* C4 witness: configstore's Get met a status it does not map.
C4_Witness ==
    /\ last.op = "Get"
    /\ UnmappedStatus
    /\ last.hostErr.status \in OtherStatuses
    /\ last.err = last.hostErr

\* C5: kvstore's classification of the statuses it knows.  INVAL gives
\* ErrStoreNotFound in Open and ErrInvalidKey in Lookup, Insert and Delete;
\* NONE gives ErrKeyNotFound in Lookup and Delete; Insert and Open never
\* return ErrKeyNotFound and wrap ErrUnexpected for NONE; a failed Open or
\* Lookup returns a nil Store or Entry; a host success returns a nil error.
C5_KVClassification ==
    LET inval == last.hostErr = FastlyError(FastlyStatusInval)
        none == last.hostErr = FastlyError(FastlyStatusNone)
    IN  /\ (last.op = "Open" /\ inval) => last.err = kvstore_ErrStoreNotFound
        /\ (last.op \in {"Lookup", "Insert", "Delete"} /\ inval)
              => last.err = kvstore_ErrInvalidKey
        /\ (last.op \in {"Lookup", "Delete"} /\ none) => last.err = kvstore_ErrKeyNotFound
        /\ last.op \in {"Insert", "Open"}
              => /\ last.err /= kvstore_ErrKeyNotFound
                 /\ none => Is(last.err, kvstore_ErrUnexpected)
        /\ (last.op \in {"Open", "Lookup"} /\ last.err /= NoError) => last.nilRet
        /\ (last.op \in {"Open", "Lookup"} /\ last.err = NoError) => ~last.nilRet
        /\ (last.op \in KVOps /\ last.hostErr = NoError) => last.err = NoError

\* C5 witness: the host failed an Insert with status NONE.
C5_Witness ==
    /\ last.op = "Insert"
    /\ last.hostErr = FastlyError(FastlyStatusNone)
    /\ Is(last.err, kvstore_ErrUnexpected)

ConfigOpenStatuses ==
    {FastlyStatusBadf, FastlyStatusNone, FastlyStatusUnsupported, FastlyStatusInval}

\* What configstore.Open returns when the host reports the status.
ConfigOpenError(status) ==
    configstore_Open(ConfigStoreName, Host(<<>>, FastlyError(status), -1, FALSE)).err

\* C6: configstore.Open gives ErrStoreNotFound for BADF, ErrStoreNameEmpty for
\* NONE, ErrStoreNameTooLong for UNSUPPORTED and ErrStoreNameInvalid for
\* INVAL; different statuses among the four give errors different in identity
\* and in text; a failed Open returns a nil Store; no result is an error
\* value of kvstore.
C6_ConfigOpenMapping ==
    last.op = "ConfigOpen"
       => /\ last.hostErr = FastlyError(FastlyStatusBadf)
                => last.err = configstore_ErrStoreNotFound
          /\ last.hostErr = FastlyError(FastlyStatusNone)
                => last.err = configstore_ErrStoreNameEmpty
          /\ last.hostErr = FastlyError(FastlyStatusUnsupported)
                => last.err = configstore_ErrStoreNameTooLong
          /\ last.hostErr = FastlyError(FastlyStatusInval)
                => last.err = configstore_ErrStoreNameInvalid
          /\ last.err /= NoError => (last.nilRet /\ cstore = Nil)
          /\ last.err \notin KVErrors
          /\ \A e \in KVErrors : ~Is(last.err, e) /\ last.err.msg /= e.msg
          /\ \A s1, s2 \in ConfigOpenStatuses :
                s1 /= s2 => /\ ConfigOpenError(s1) /= ConfigOpenError(s2)
                            /\ ConfigOpenError(s1).msg /= ConfigOpenError(s2).msg

\* C6 witness: an Open of a config store whose name the host found too long.
C6_Witness ==
    /\ last.op = "ConfigOpen"
    /\ last.key = "name-that-is-too-long"
    /\ last.hostErr = FastlyError(FastlyStatusUnsupported)
    /\ last.err = configstore_ErrStoreNameTooLong
    /\ last.nilRet

\* C7: Get on a nil *Store returns "" and ErrKeyNotFound for every key and
\* makes no host call.
C7_GetOnNilStore ==
    (last.op = "Get" /\ last.nilRet)
       => /\ last.ret = <<>>
          /\ last.err = configstore_ErrKeyNotFound
          /\ last.calls = 0
          /\ last.hostErr = NoError

\* C7 witness: Get on a nil *Store for a key the config store holds.
C7_Witness ==
    /\ last.op = "Get"
    /\ last.nilRet
    /\ last.key \in DOMAIN ConfigData
    /\ last.err = configstore_ErrKeyNotFound

\* C8 as claimed: no call makes more than one host call, and every failure
\* met, a failed host call or a failed read during String's drain, comes back
\* to the caller as a non-nil error.
C8_Original ==
    /\ last.calls <= 1
    /\ (last.hostErr /= NoError \/ last.readErr) => last.err /= NoError

\* C8 amended: each of the six store operations makes at most one host call
\* and returns a non-nil error whenever that call fails; Entry.String is the
\* exception: a read failure during its drain is dropped, the call returning
\* the empty string and no error.
C8_FailuresSurface ==
    /\ last.op \in KVOps \cup ConfigOps
          => /\ last.calls <= 1
             /\ last.hostErr /= NoError => (last.calls = 1 /\ last.err /= NoError)
    /\ (last.op = "String" /\ last.readErr) => (last.ret = <<>> /\ last.err = NoError)

\* C8 witness: the host failed a Delete with status NONE and Delete returned
\* an error.
C8_Witness ==
    /\ last.op = "Delete"
    /\ last.hostErr = FastlyError(FastlyStatusNone)
    /\ last.calls = 1
    /\ last.err /= NoError

====
